---------------------------- MODULE Spec2Model ----------------------------
(***************************************************************************)
(* Model of the market-data server (server routes): the history request    *)
(* GET /api/cryptocurrencies/:id/history, the periodic ingestion cycle      *)
(* initializeAndUpdate / updateCryptocurrencyData, the alert evaluation     *)
(* checkPriceAlerts and the WebSocket broadcast.                            *)
(*                                                                         *)
(* Time is counted in minutes (the code counts milliseconds); one hour is   *)
(* UnitsPerHour units.  A point of a series is a record                     *)
(*   [timestamp, price, src]                                                *)
(* where src stands for the provenance visible in the point's id field:     *)
(* a store row, `${id}-${ts}` for an upstream point, `mock-${id}-${time}`   *)
(* for a synthetic point.                                                   *)
(***************************************************************************)
EXTENDS Integers, Sequences, FiniteSets, TLC

VARIABLES
    \* ---- the store (storage) ----
    cryptos,        \* latest snapshot per asset id (a function on the ids that have a row)
    priceHistory,   \* price points per asset id, in insertion order
    \* ---- one history request ----
    hpc,            \* position of the request handler
    hId,            \* req.params.id
    hQuery,         \* req.query.hours (Absent when the parameter is missing)
    history,        \* the handler's local `history`
    upstreamCalls,  \* endpoints requested from fetchFromCoinGecko by the handler
    hPath,          \* which branch produced `history`
    hAnchor,        \* basePrice chosen by the mock fallback
    response,       \* what res.json / res.status(500) answered
    hUpstream,      \* how the upstream call of the request ended
    hStoreFault,    \* a store read of the request threw
    hRawLen,        \* history.length before the downsampling step
    \* ---- the alert rules (storage) ----
    alerts,         \* rule id -> [cryptoId, alertType, targetValue, isTriggered, triggeredAt]
    trigWrites,     \* rule id -> number of updatePriceAlert writes made so far
    \* ---- the ingestion cycles: one entry per call of initializeAndUpdate ----
    pc,             \* cycle -> position in initializeAndUpdate / updateCryptocurrencyData
    data,           \* cycle -> the batch fetched from upstream
    kind,           \* cycle -> how its upstream fetch ended
    idx,            \* cycle -> index of the loop the cycle is in
    active,         \* cycle -> the rules read by storage.getActivePriceAlerts()
    clock,          \* number of timer ticks so far (the time of new Date())
    isInitialized,  \* the flag of registerRoutes
    \* ---- the WebSocket subscribers ----
    clients,        \* the Set<WebSocket> of registerRoutes
    readyState,     \* socket -> "none" | "open" | "closing" | "closed"
    sent,           \* socket -> messages the latest broadcast call handed to it
    sendFailed,     \* sockets whose send of the latest broadcast failed in transit
    payload         \* the `data` of the latest price_update message

histVars == <<hpc, hId, hQuery, history, upstreamCalls, hPath, hAnchor, response,
              hUpstream, hStoreFault, hRawLen>>
storeVars == <<cryptos, priceHistory>>
alertVars == <<alerts, trigWrites>>
cycleVars == <<pc, data, kind, idx, active, clock, isInitialized>>
socketVars == <<clients, readyState>>
pubVars == <<sent, sendFailed, payload>>
ingestVars == <<alerts, trigWrites, pc, data, kind, idx, active, clock, isInitialized,
                clients, readyState, sent, sendFailed, payload>>
vars == <<cryptos, priceHistory, hpc, hId, hQuery, history, upstreamCalls,
          hPath, hAnchor, response, hUpstream, hStoreFault, hRawLen,
          alerts, trigWrites, pc, data, kind, idx, active, clock, isInitialized,
          clients, readyState, sent, sendFailed, payload>>

-----------------------------------------------------------------------------
(* Values *)

\* A missing query parameter; a present one is <<n>>.
Absent == <<>>

\* parseFloat of a missing or unparseable value. Every comparison with it is false.
NaN == 0 - 1000000

NoResponse == "NoResponse"

\* (1000 * 60 * 60) milliseconds in the code; the model's unit is one minute.
UnitsPerHour == 3600000 \div 60000

\* Date.now(): far enough from 0 for every requested window to start after 0.
Now == 50000 * UnitsPerHour

TransportCap == 2000

\* How many lengths just above a multiple of the transport cap are tried.
MaxExtra == 1

Point(t, p, s) == [timestamp |-> t, price |-> p, src |-> s]

\* Math.ceil(a / b) for a >= 0, b > 0
Ceil(a, b) == (a + b - 1) \div b


-----------------------------------------------------------------------------
(* The history request: GET /api/cryptocurrencies/:id/history *)

\* SEED_CRYPTOS: the roster seeded when upstream is unavailable
SEED_CRYPTOS ==
    << [id |-> "bitcoin", rank |-> 1], [id |-> "ethereum", rank |-> 2],
       [id |-> "tether", rank |-> 3], [id |-> "binancecoin", rank |-> 4],
       [id |-> "solana", rank |-> 5], [id |-> "usd-coin", rank |-> 6],
       [id |-> "xrp", rank |-> 7], [id |-> "cardano", rank |-> 8],
       [id |-> "dogecoin", rank |-> 9], [id |-> "tron", rank |-> 10] >>

\* data.slice(0, 20): the number of coins a price_update carries at most
TopCount == 20

\* Lengths of the ranked /coins/markets answers tried: one coin, and the
\* lengths around TopCount.
RankedLens == {1} \cup {TopCount - 1 + e : e \in 0..(MaxExtra + 1)}

\* The id of the coin ranked i: the roster's ids first, then coin11, coin12, ...
CoinId(i) ==
    IF i <= Len(SEED_CRYPTOS) THEN SEED_CRYPTOS[i].id ELSE "coin" \o ToString(i)

AssetIds ==
    {SEED_CRYPTOS[i].id : i \in 1..Len(SEED_CRYPTOS)} \cup {"unknowncoin"}
    \cup {CoinId(i) : i \in 1..(TopCount + MaxExtra + 1)}

\* ---- the ingestion cycles and the sockets of the model ----

\* Calls of initializeAndUpdate in a run: the one made by registerRoutes plus
\* the timer's.
MaxCycles == 2
Cycles == 1..MaxCycles

\* WebSocket connections accepted in a run.
MaxClients == 2
Sockets == 1..MaxClients

\* A row of the snapshot table (the fields the server reads back).
Snapshot(price, change) == [current_price |-> price, change24h |-> change]

\* An element of the /coins/markets answer.
Coin(id, price, change) == [id |-> id, current_price |-> price, change24h |-> change]

\* An element of the /coins/markets answer with its market_cap_rank.
RankedCoin(id, rank) ==
    [id |-> id, current_price |-> rank, change24h |-> 0, market_cap_rank |-> rank]

\* A null element inside the answer (reading coin.id throws a TypeError).
NullCoin == Coin("null", NaN, NaN)

\* An alert rule as stored; triggeredAt is -1 while null.
Rule(cryptoId, alertType, targetValue) ==
    [cryptoId |-> cryptoId, alertType |-> alertType, targetValue |-> targetValue,
     isTriggered |-> FALSE, triggeredAt |-> -1]

\* registerRoutes has run: the first call of initializeAndUpdate is waiting for
\* upstream, the timer has not fired, nobody is connected.
CyclesInit ==
    /\ pc = [c \in Cycles |-> IF c = 1 THEN "fetching" ELSE "idle"]
    /\ data = [c \in Cycles |-> <<>>]
    /\ kind = [c \in Cycles |-> "none"]
    /\ idx = [c \in Cycles |-> 0]
    /\ active = [c \in Cycles |-> <<>>]
    /\ clock = 0
    /\ isInitialized = FALSE
    /\ clients = {}
    /\ readyState = [s \in Sockets |-> "none"]
    /\ sent = [s \in Sockets |-> 0]
    /\ sendFailed = {}
    /\ payload = <<>>

\* const hours = req.query.hours ? parseInt(req.query.hours) : 24
ParseHours(q) == IF q = Absent THEN 24 ELSE q[1]

hours == ParseHours(hQuery)

\* new Date(Date.now() - hours * 60 * 60 * 1000)
CutoffTime(h) == Now - h * UnitsPerHour

\* storage.getPriceHistory(id, hours): the asset's rows inside the trailing
\* window, in timestamp order (the store's contract).
GetPriceHistory(id, h) ==
    SelectSeq(priceHistory[id], LAMBDA p : p.timestamp >= CutoffTime(h))

\* newestPoint.timestamp - oldestPoint.timestamp, 0 for an empty series
TimeSpan(h) ==
    IF Len(h) > 0 THEN h[Len(h)].timestamp - h[1].timestamp ELSE 0

\* mutant: the comparison lets a coverage of exactly 90 % go to upstream too
CoverageAtMost(h, hrs) == TimeSpan(h) * 10 <= hrs * UnitsPerHour * 9

\* timeSpanHours < hours * 0.9, both sides scaled by 10 * UnitsPerHour
CoverageTooSmall(h, hrs) == TimeSpan(h) * 10 < hrs * UnitsPerHour * 9

\* mutant: strict comparisons at the tier limits
DaysStrict(hrs) ==
    IF hrs < 24 THEN "1"
    ELSE IF hrs < 168 THEN ToString(Ceil(hrs, 24))
    ELSE IF hrs < 720 THEN "30"
    ELSE IF hrs < 2160 THEN "90"
    ELSE IF hrs < 8760 THEN "365"
    ELSE "max"

\* mutant: Math.floor in place of Math.ceil
DaysFloor(hrs) ==
    IF hrs <= 24 THEN "1"
    ELSE IF hrs <= 168 THEN ToString(hrs \div 24)
    ELSE IF hrs <= 720 THEN "30"
    ELSE IF hrs <= 2160 THEN "90"
    ELSE IF hrs <= 8760 THEN "365"
    ELSE "max"

\* the `days` chosen for the upstream endpoint
Days(hrs) ==
    IF hrs <= 24 THEN "1"
    ELSE IF hrs <= 168 THEN ToString(Ceil(hrs, 24))
    ELSE IF hrs <= 720 THEN "30"
    ELSE IF hrs <= 2160 THEN "90"
    ELSE IF hrs <= 8760 THEN "365"
    ELSE "max"

\* /coins/${id}/market_chart?vs_currency=usd&days=${days}[&interval=daily]
Endpoint(id, hrs) ==
    [id |-> id, days |-> Days(hrs),
     daily |-> (Days(hrs) = "365" \/ Days(hrs) = "max")]

\* coinGeckoData.prices.map(pricePoint => ({..., timestamp: new Date(pricePoint[0])}))
FromUpstream(prices) ==
    [i \in 1..Len(prices) |-> Point(prices[i][1], prices[i][2], "upstream")]

\* mutant: the filter is left out for every range
CutoffFilterSkipped(h, hrs) == h

\* if (hours !== 43800) history = history.filter(h => h.timestamp >= cutoffTime)
CutoffFilter(h, hrs) ==
    IF hrs # 43800
    THEN SelectSeq(h, LAMBDA p : p.timestamp >= CutoffTime(hrs))
    ELSE h

\* mutant: strict comparisons at the tier limits
NumPointsStrict(hrs) == IF hrs < 24 THEN 48 ELSE IF hrs < 168 THEN 168 ELSE 365

\* numPoints = hours <= 24 ? 48 : (hours <= 168 ? 168 : 365)
NumPoints(hrs) == IF hrs <= 24 THEN 48 ELSE IF hrs <= 168 THEN 168 ELSE 365

\* priceDefaults[id] || 100 (the ids of the model only)
PriceDefault(id) ==
    IF id = "bitcoin" THEN 50000 ELSE IF id = "ethereum" THEN 3000 ELSE 100

\* mutant: the anchor is the constant 50000 whatever the store holds
BasePriceFixed(id) == 50000

\* basePrice: the stored current price when there is one, else the default
BasePrice(id) ==
    IF id \in DOMAIN cryptos /\ cryptos[id].current_price # NaN
    THEN cryptos[id].current_price
    ELSE PriceDefault(id)

\* mutant: the series is laid out from `now` backwards
MockSeriesBackwards(hrs, base) ==
    LET n     == NumPoints(hrs)
        start == Now - hrs * UnitsPerHour
    IN  [k \in 1..n |-> Point(Now - ((k - 1) * (Now - start)) \div n, base, "mock")]

\* Array.from({length: numPoints}, (_, i) => ... new Date(start + i * step)),
\* step = (now - start) / numPoints; the noise on the price is left out and
\* the price field carries the anchor.
MockSeries(hrs, base) ==
    LET n     == NumPoints(hrs)
        start == Now - hrs * UnitsPerHour
    IN  [k \in 1..n |-> Point(start + ((k - 1) * (Now - start)) \div n, base, "mock")]

\* mutant: the stride is rounded down
DownsampleFloorStride(h) ==
    IF Len(h) > TransportCap
    THEN LET step == Len(h) \div TransportCap
             kept == {i \in 0..(Len(h) - 1) : i % step = 0}
         IN  [j \in 1..Cardinality(kept) |-> h[(j - 1) * step + 1]]
    ELSE h

\* mutant: the filter keeps the last point of each stride window, not the first
DownsampleLastOfWindow(h) ==
    IF Len(h) > TransportCap
    THEN LET step == Ceil(Len(h), TransportCap)
             kept == {i \in 0..(Len(h) - 1) : i % step = step - 1}
         IN  [j \in 1..Cardinality(kept) |-> h[j * step]]
    ELSE h

\* mutant: the stride is one more than needed
DownsampleWiderStride(h) ==
    IF Len(h) > TransportCap
    THEN LET step == Ceil(Len(h), TransportCap) + 1
             kept == {i \in 0..(Len(h) - 1) : i % step = 0}
         IN  [j \in 1..Cardinality(kept) |-> h[(j - 1) * step + 1]]
    ELSE h

\* if (history.length > 2000) { step = ceil(length / 2000);
\*                              history = history.filter((_, index) => index % step === 0) }
Downsample(h) ==
    IF Len(h) > TransportCap
    THEN LET step == Ceil(Len(h), TransportCap)
             kept == {i \in 0..(Len(h) - 1) : i % step = 0}
         IN  [j \in 1..Cardinality(kept) |-> h[(j - 1) * step + 1]]
    ELSE h


\* ---- inputs of the history request ----

\* req.query.hours: missing, zero, negative, the chart's ranges (PriceChart
\* TIME_FILTER_HOURS) and the values next to the handler's thresholds.
HoursQueries ==
    {Absent} \cup {<<n>> : n \in {-1, 0, 1, 3, 24, 25, 168, 169, 720, 721,
                                   2160, 2161, 8760, 8761, 43800}}

\* Lengths around the multiples of the transport cap.
LongLens == {k * TransportCap + e : k \in 1..2, e \in 0..MaxExtra}

\* A series of n points ending at Now, `gap` units apart.
Spaced(n, gap, src) == [i \in 1..n |-> Point(Now - (n - i) * gap, 1, src)]

\* What the store may hold for the requested asset: nothing, one row, two rows
\* just below / at 90 % of 1 h and of 24 h, and long runs of 5-minute rows.
StoreContents ==
    {Spaced(0, 0, "store"), Spaced(1, 0, "store")}
    \cup {Spaced(2, g, "store") : g \in {53, 54, 1295, 1296}}
    \cup {Spaced(n, 5, "store") : n \in LongLens}

\* The price lists upstream may answer with (pairs <<timestamp, price>> in
\* chronological order, as the market_chart endpoint delivers them): short
\* lists, long lists, and 1830 daily prices (a little more than 43800 hours,
\* what days=max&interval=daily answers for an asset listed that long).
UpstreamPrices ==
    LET pairs(n, gap) == [i \in 1..n |-> <<Now - (n - i) * gap, 2>>]
    IN  {pairs(n, 32) : n \in {0, 3, 50}}
        \cup {pairs(n, g) : n \in LongLens, g \in {1, 5}}
        \cup {pairs(1830, 24 * UnitsPerHour)}

HistInit ==
    /\ hpc = "start"
    /\ hQuery \in HoursQueries
    /\ \E content \in StoreContents, rows \in {{}, {"bitcoin"}}, price \in {7, NaN} :
         \* a snapshot without price is tried on a store without price rows
         /\ price = NaN => (rows = {"bitcoin"} /\ content = <<>>)
         /\ \/ /\ hId = "bitcoin"
               /\ priceHistory = [a \in AssetIds |-> IF a = "bitcoin" THEN content ELSE <<>>]
               /\ cryptos = [a \in rows |-> Snapshot(price, 0)]
            \/ /\ hId = "unknowncoin"
               /\ priceHistory = [a \in AssetIds |-> <<>>]
               /\ cryptos = [a \in {} |-> Snapshot(7, 0)]
    /\ history = <<>>
    /\ upstreamCalls = <<>>
    /\ hPath = "none"
    /\ hAnchor = 0
    /\ response = NoResponse
    /\ hUpstream = "notcalled"
    /\ hStoreFault = FALSE
    /\ hRawLen = 0
    /\ alerts = <<>>
    /\ trigWrites = <<>>
    /\ CyclesInit

\* ---- the handler, one action per await / branch ----

\* let history = await storage.getPriceHistory(id, hours)
HistQueryStore ==
    /\ hpc = "start"
    /\ history' = GetPriceHistory(hId, hours)
    /\ hPath' = "store"
    /\ hpc' = "coverage"
    /\ UNCHANGED <<hId, hQuery, upstreamCalls, hAnchor, response, storeVars,
                   hUpstream, hStoreFault, hRawLen, ingestVars>>

\* storage.getPriceHistory throws: the outer catch answers 500
HistQueryStoreFails ==
    /\ hpc = "start"
    /\ response' = "error500"
    /\ hpc' = "done"
    /\ hStoreFault' = TRUE
    /\ UNCHANGED <<hId, hQuery, history, upstreamCalls, hPath, hAnchor,
                   storeVars, hUpstream, hRawLen, ingestVars>>

\* if (timeSpanHours < hours * 0.9) is false
HistCoverageEnough ==
    /\ hpc = "coverage"
    /\ ~CoverageTooSmall(history, hours)
    /\ hpc' = "downsample"
    /\ UNCHANGED <<hId, hQuery, history, upstreamCalls, hPath, hAnchor,
                   response, storeVars, hUpstream, hStoreFault, hRawLen, ingestVars>>

\* mutant: the upstream points are appended to the store series
HistUpstreamPricesMerged ==
    /\ hpc = "coverage"
    /\ CoverageTooSmall(history, hours)
    /\ upstreamCalls' = Append(upstreamCalls, Endpoint(hId, hours))
    /\ \E prices \in UpstreamPrices :
         history' = history \o CutoffFilter(FromUpstream(prices), hours)
    /\ hPath' = "upstream"
    /\ hpc' = "downsample"
    /\ hUpstream' = "prices"
    /\ UNCHANGED <<hId, hQuery, hAnchor, response, storeVars, hStoreFault,
                   hRawLen, ingestVars>>

\* fetchFromCoinGecko(endpoint) answers a payload with a price list
HistUpstreamPrices ==
    /\ hpc = "coverage"
    /\ CoverageTooSmall(history, hours)
    /\ upstreamCalls' = Append(upstreamCalls, Endpoint(hId, hours))
    /\ \E prices \in UpstreamPrices :
         history' = CutoffFilter(FromUpstream(prices), hours)
    /\ hPath' = "upstream"
    /\ hpc' = "downsample"
    /\ hUpstream' = "prices"
    /\ UNCHANGED <<hId, hQuery, hAnchor, response, storeVars, hStoreFault,
                   hRawLen, ingestVars>>

\* fetchFromCoinGecko(endpoint) answers a payload without `prices`
HistUpstreamNoPrices ==
    /\ hpc = "coverage"
    /\ CoverageTooSmall(history, hours)
    /\ upstreamCalls' = Append(upstreamCalls, Endpoint(hId, hours))
    /\ hpc' = "downsample"
    /\ hUpstream' = "noprices"
    /\ UNCHANGED <<hId, hQuery, history, hPath, hAnchor, response,
                   storeVars, hStoreFault, hRawLen, ingestVars>>

\* mutant: the upstream failure is not caught next to the call and reaches the outer catch
HistUpstreamFailsUncaught ==
    /\ hpc = "coverage"
    /\ CoverageTooSmall(history, hours)
    /\ upstreamCalls' = Append(upstreamCalls, Endpoint(hId, hours))
    /\ hpc' = "done"
    /\ response' = "error500"
    /\ hUpstream' = "failed"
    /\ UNCHANGED <<hId, hQuery, history, hPath, hAnchor, storeVars,
                   hStoreFault, hRawLen, ingestVars>>

\* fetchFromCoinGecko(endpoint) throws (network error, non-2xx)
HistUpstreamFails ==
    /\ hpc = "coverage"
    /\ CoverageTooSmall(history, hours)
    /\ upstreamCalls' = Append(upstreamCalls, Endpoint(hId, hours))
    /\ hpc' = "mock"
    /\ hUpstream' = "failed"
    /\ UNCHANGED <<hId, hQuery, history, hPath, hAnchor, response,
                   storeVars, hStoreFault, hRawLen, ingestVars>>

\* catch (fetchError): storage.getCryptocurrency(id) answers, mock series built
HistMockFallback ==
    /\ hpc = "mock"
    /\ hAnchor' = BasePrice(hId)
    /\ history' = MockSeries(hours, BasePrice(hId))
    /\ hPath' = "mock"
    /\ hpc' = "downsample"
    /\ UNCHANGED <<hId, hQuery, upstreamCalls, response, storeVars, hUpstream,
                   hStoreFault, hRawLen, ingestVars>>

\* catch (fetchError): storage.getCryptocurrency(id) throws: the outer catch answers 500
HistMockLookupFails ==
    /\ hpc = "mock"
    /\ response' = "error500"
    /\ hpc' = "done"
    /\ hStoreFault' = TRUE
    /\ UNCHANGED <<hId, hQuery, history, upstreamCalls, hPath, hAnchor,
                   storeVars, hUpstream, hRawLen, ingestVars>>

\* downsampling and res.json(history)
HistRespond ==
    /\ hpc = "downsample"
    /\ history' = Downsample(history)
    /\ response' = "series"
    /\ hpc' = "done"
    /\ hRawLen' = Len(history)
    /\ UNCHANGED <<hId, hQuery, upstreamCalls, hPath, hAnchor, storeVars,
                   hUpstream, hStoreFault, ingestVars>>

HistNext ==
    \/ HistQueryStore
    \/ HistQueryStoreFails
    \/ HistCoverageEnough
    \/ HistUpstreamPrices
    \/ HistUpstreamNoPrices
    \/ HistUpstreamFails
    \/ HistMockFallback
    \/ HistMockLookupFails
    \/ HistRespond

SpecHist == HistInit /\ [][HistNext]_vars

\* hours <= 8760: the last range answered with a number of days
YearHours == 8760

\* A history request for each whole number of hours up to a year and one more,
\* and for the chart's 'all' range, on a store without rows for the asset, so
\* that the backfill is attempted; upstream answers no price list or fails.
InitDays ==
    /\ hpc = "start"
    /\ hQuery \in {<<n>> : n \in (1..(YearHours + 1)) \cup {43800}}
    /\ hId = "bitcoin"
    /\ priceHistory = [a \in AssetIds |-> <<>>]
    /\ cryptos = [a \in {} |-> Snapshot(7, 0)]
    /\ history = <<>>
    /\ upstreamCalls = <<>>
    /\ hPath = "none"
    /\ hAnchor = 0
    /\ response = NoResponse
    /\ hUpstream = "notcalled"
    /\ hStoreFault = FALSE
    /\ hRawLen = 0
    /\ alerts = <<>>
    /\ trigWrites = <<>>
    /\ CyclesInit

NextDays ==
    \/ HistQueryStore
    \/ HistUpstreamNoPrices
    \/ HistRespond

SpecDays == InitDays /\ [][NextDays]_vars


-----------------------------------------------------------------------------
(* The store operations used by ingestion (storage's contract) *)

\* storage.upsertCryptocurrency: insert the row or replace the one with the same id
UpsertCryptocurrency(table, id, snap) ==
    [a \in (DOMAIN table) \cup {id} |-> IF a = id THEN snap ELSE table[a]]

\* storage.addPriceHistory: append one point stamped with the current time
AddPriceHistory(ph, id, price, t) ==
    [ph EXCEPT ![id] = Append(@, Point(t, price, "store"))]

\* storage.getActivePriceAlerts: the ids of the rules not triggered yet
GetActivePriceAlerts ==
    SelectSeq([i \in 1..Len(alerts) |-> i], LAMBDA i : ~alerts[i].isTriggered)

\* storage.updatePriceAlert(id, {isTriggered: true, triggeredAt: new Date()})
UpdatePriceAlert(rules, id, t) ==
    [rules EXCEPT ![id].isTriggered = TRUE, ![id].triggeredAt = t]

-----------------------------------------------------------------------------
(* seedFallbackData *)

\* basePrice = rank === 1 ? 50000 : rank === 2 ? 3000 : 500 / rank (the random
\* +-5 % variation is left out, prices are whole numbers)
SeedPrice(rank) ==
    IF rank = 1 THEN 50000 ELSE IF rank = 2 THEN 3000 ELSE 500 \div rank

RECURSIVE SeedTable(_, _)
\* the snapshot table after the upserts of seeds 1..n
SeedTable(table, n) ==
    IF n = 0 THEN table
    ELSE UpsertCryptocurrency(SeedTable(table, n - 1), SEED_CRYPTOS[n].id,
                              Snapshot(SeedPrice(SEED_CRYPTOS[n].rank), 0))

RECURSIVE SeedHistory(_, _, _)
\* the price points after the addPriceHistory calls of seeds 1..n
SeedHistory(ph, n, t) ==
    IF n = 0 THEN ph
    ELSE AddPriceHistory(SeedHistory(ph, n - 1, t), SEED_CRYPTOS[n].id,
                         SeedPrice(SEED_CRYPTOS[n].rank), t)

-----------------------------------------------------------------------------
(* checkPriceAlerts *)

Abs(x) == IF x < 0 THEN 0 - x ELSE x

\* mutant: the comparison does not know NaN
GeqNoNaN(a, b) == a >= b

\* a >= b on parseFloat results: false as soon as one side is NaN
Geq(a, b) == a # NaN /\ b # NaN /\ a >= b

\* cryptoData.find(c => c.id === alert.cryptoId): index of the first match, 0 if none
Find(batch, id) ==
    IF \E i \in 1..Len(batch) : batch[i].id = id
    THEN CHOOSE i \in 1..Len(batch) :
            /\ batch[i].id = id
            /\ \A j \in 1..(i - 1) : batch[j].id # id
    ELSE 0

\* mutant: strict comparisons, a price equal to the target does not trigger
ShouldTriggerStrict(alertType, coin, targetValue) ==
    IF alertType = "price_above"
    THEN Geq(coin.current_price, targetValue) /\ coin.current_price # targetValue
    ELSE IF alertType = "price_below"
    THEN Geq(targetValue, coin.current_price) /\ coin.current_price # targetValue
    ELSE IF alertType = "percentage_change"
    THEN coin.change24h # NaN /\ Geq(Abs(coin.change24h), targetValue)
    ELSE FALSE

\* the switch on alert.alertType
ShouldTrigger(alertType, coin, targetValue) ==
    IF alertType = "price_above"
    THEN Geq(coin.current_price, targetValue)
    ELSE IF alertType = "price_below"
    THEN Geq(targetValue, coin.current_price)
    ELSE IF alertType = "percentage_change"
    THEN coin.change24h # NaN /\ Geq(Abs(coin.change24h), targetValue)
    ELSE FALSE

-----------------------------------------------------------------------------
(* broadcast *)

\* mutant: the readyState test is dropped
RecipientsAnyState == clients

\* mutant: the close and error handlers never prune the set the loop runs over
RecipientsEverConnected == {s \in Sockets : readyState[s] # "none"}

\* clients.forEach(client => { if (client.readyState === WebSocket.OPEN) client.send(message) })
Recipients == {s \in clients : readyState[s] = "open"}

\* mutant: a failing send throws out of forEach, the sockets after it are skipped
SendCallsUntilFailure(failing) ==
    {s \in Recipients : \A f \in failing : s <= f}

\* The sockets client.send(message) is called on when the sends of `failing` fail.
\* send() on an OPEN socket queues the frame and returns; a transport failure
\* surfaces later as the socket's 'error' event, so forEach visits every client.
SendCalls(failing) == Recipients

Min(a, b) == IF a < b THEN a ELSE b

\* mutant: the end index is taken as inclusive
SliceInclusive(seq, from, to) == SubSeq(seq, from + 1, Min(to + 1, Len(seq)))

\* Array.prototype.slice(from, to) for 0 <= from <= to
Slice(seq, from, to) == SubSeq(seq, from + 1, Min(to, Len(seq)))

-----------------------------------------------------------------------------
(* Inputs of ingestion *)

\* What /coins/markets may answer with: nothing, one coin, two coins.
Batches ==
    { <<>>,
      << Coin("bitcoin", 2, -3) >>,
      << Coin("bitcoin", 1, 1), Coin("ethereum", 2, 2) >> }

\* Answers of n coins in the order the endpoint is asked for
\* (order=market_cap_desc): best rank first.
RankedBatches == {[i \in 1..n |-> RankedCoin(CoinId(i), i)] : n \in RankedLens}

\* A malformed answer: a list with a valid coin followed by a null element.
MalformedBatches == { << Coin("bitcoin", 2, 1), NullCoin >> }

\* The rules users have created.
AlertConfigs ==
    { << >>,
      << Rule("bitcoin", "price_above", 2), Rule("ethereum", "price_below", 2) >>,
      << Rule("bitcoin", "percentage_change", 3), Rule("bitcoin", "price_below", 1) >>,
      << Rule("ethereum", "price_above", 3), Rule("tether", "price_above", 1) >> }

\* No history request is being served.
HistAtRest ==
    /\ hpc = "norequest"
    /\ hId = "bitcoin"
    /\ hQuery = Absent
    /\ history = <<>>
    /\ upstreamCalls = <<>>
    /\ hPath = "none"
    /\ hAnchor = 0
    /\ response = NoResponse
    /\ hUpstream = "notcalled"
    /\ hStoreFault = FALSE
    /\ hRawLen = 0

\* The server starts on an empty store (first boot) or on one that already
\* holds a bitcoin row and one price point from an earlier run.
StoreAtBoot ==
    \/ /\ cryptos = [a \in {} |-> Snapshot(1, 1)]
       /\ priceHistory = [a \in AssetIds |-> <<>>]
    \/ /\ cryptos = [a \in {"bitcoin"} |-> Snapshot(1, 1)]
       /\ priceHistory = [a \in AssetIds |->
                             IF a = "bitcoin" THEN << Point(0, 1, "store") >> ELSE <<>>]

Init ==
    /\ StoreAtBoot
    /\ alerts \in AlertConfigs
    /\ trigWrites = [i \in DOMAIN alerts |-> 0]
    /\ CyclesInit
    /\ HistAtRest

-----------------------------------------------------------------------------
(* initializeAndUpdate / updateCryptocurrencyData, one action per await *)

\* setInterval(initializeAndUpdate, 300000): the timer starts the next call
\* whether or not an earlier one is still running
Tick(c) ==
    /\ pc[c] = "idle"
    /\ \A d \in Cycles : d < c => pc[d] # "idle"
    /\ pc' = [pc EXCEPT ![c] = "fetching"]
    /\ clock' = clock + 1
    /\ UNCHANGED <<data, kind, idx, active, isInitialized, storeVars, alertVars,
                   socketVars, pubVars, histVars>>

\* fetchFromCoinGecko throws: catch block of updateCryptocurrencyData
FetchFails(c) ==
    /\ pc[c] = "fetching"
    /\ kind' = [kind EXCEPT ![c] = "fail"]
    /\ pc' = [pc EXCEPT ![c] = "seedcheck"]
    /\ UNCHANGED <<data, idx, active, clock, isInitialized, storeVars, alertVars,
                   socketVars, pubVars, histVars>>

\* fetchFromCoinGecko answers a list: if (data && data.length > 0) the loop
\* starts, else data is returned and initializeAndUpdate does nothing
FetchAnswers(c) ==
    /\ pc[c] = "fetching"
    /\ \E batch \in Batches \cup MalformedBatches :
         /\ data' = [data EXCEPT ![c] = batch]
         /\ kind' = [kind EXCEPT ![c] =
                        IF batch \in MalformedBatches THEN "malformed"
                        ELSE IF Len(batch) = 0 THEN "empty" ELSE "ok"]
         /\ pc' = [pc EXCEPT ![c] = IF Len(batch) > 0 THEN "upsert" ELSE "done"]
         /\ idx' = [idx EXCEPT ![c] = IF Len(batch) > 0 THEN 1 ELSE 0]
    /\ UNCHANGED <<active, clock, isInitialized, storeVars, alertVars,
                   socketVars, pubVars, histVars>>

\* fetchFromCoinGecko answers a ranked list of up to TopCount + MaxExtra + 1 coins
FetchAnswersRanked(c) ==
    /\ pc[c] = "fetching"
    /\ \E batch \in RankedBatches :
         /\ data' = [data EXCEPT ![c] = batch]
         /\ kind' = [kind EXCEPT ![c] =
                        IF batch \in MalformedBatches THEN "malformed"
                        ELSE IF Len(batch) = 0 THEN "empty" ELSE "ok"]
         /\ pc' = [pc EXCEPT ![c] = IF Len(batch) > 0 THEN "upsert" ELSE "done"]
         /\ idx' = [idx EXCEPT ![c] = IF Len(batch) > 0 THEN 1 ELSE 0]
    /\ UNCHANGED <<active, clock, isInitialized, storeVars, alertVars,
                   socketVars, pubVars, histVars>>

\* fetchFromCoinGecko answers JSON that is no list (null, an error object):
\* data.length > 0 is false, data is returned, initializeAndUpdate does nothing
FetchAnswersNoList(c) ==
    /\ pc[c] = "fetching"
    /\ kind' = [kind EXCEPT ![c] = "malformed"]
    /\ pc' = [pc EXCEPT ![c] = "done"]
    /\ UNCHANGED <<data, idx, active, clock, isInitialized, storeVars, alertVars,
                   socketVars, pubVars, histVars>>

\* await storage.upsertCryptocurrency({id: coin.id, ...}); reading a null
\* element throws and the catch block takes over
Upsert(c) ==
    /\ pc[c] = "upsert"
    /\ LET coin == data[c][idx[c]]
       IN  IF coin = NullCoin
           THEN /\ pc' = [pc EXCEPT ![c] = "seedcheck"]
                /\ UNCHANGED cryptos
           ELSE /\ cryptos' = UpsertCryptocurrency(cryptos, coin.id,
                                  Snapshot(coin.current_price, coin.change24h))
                /\ pc' = [pc EXCEPT ![c] = "addhist"]
    /\ UNCHANGED <<priceHistory, data, kind, idx, active, clock, isInitialized,
                   alertVars, socketVars, pubVars, histVars>>

\* mutant: the point is stamped with the price of the batch's first coin
AddHistFirstPrice(c) ==
    /\ pc[c] = "addhist"
    /\ LET coin == data[c][idx[c]]
       IN  priceHistory' = AddPriceHistory(priceHistory, coin.id,
                                           data[c][1].current_price, clock)
    /\ IF idx[c] < Len(data[c])
       THEN /\ idx' = [idx EXCEPT ![c] = @ + 1]
            /\ pc' = [pc EXCEPT ![c] = "upsert"]
       ELSE /\ idx' = [idx EXCEPT ![c] = 0]
            /\ pc' = [pc EXCEPT ![c] = "alerts"]
    /\ UNCHANGED <<cryptos, data, kind, active, clock, isInitialized,
                   alertVars, socketVars, pubVars, histVars>>

\* await storage.addPriceHistory({cryptoId: coin.id, price: coin.current_price})
AddHist(c) ==
    /\ pc[c] = "addhist"
    /\ LET coin == data[c][idx[c]]
       IN  priceHistory' = AddPriceHistory(priceHistory, coin.id, coin.current_price, clock)
    /\ IF idx[c] < Len(data[c])
       THEN /\ idx' = [idx EXCEPT ![c] = @ + 1]
            /\ pc' = [pc EXCEPT ![c] = "upsert"]
       ELSE /\ idx' = [idx EXCEPT ![c] = 0]
            /\ pc' = [pc EXCEPT ![c] = "alerts"]
    /\ UNCHANGED <<cryptos, data, kind, active, clock, isInitialized,
                   alertVars, socketVars, pubVars, histVars>>

\* catch: existingData = await storage.getCryptocurrencies(10); seed only when empty
SeedCheck(c) ==
    /\ pc[c] = "seedcheck"
    /\ pc' = [pc EXCEPT ![c] = IF DOMAIN cryptos = {} THEN "seed" ELSE "done"]
    /\ UNCHANGED <<data, kind, idx, active, clock, isInitialized, storeVars,
                   alertVars, socketVars, pubVars, histVars>>

\* mutant: the seeded snapshots are returned as the cycle's batch and evaluated
SeedThenEvaluates(c) ==
    /\ pc[c] = "seed"
    /\ cryptos' = SeedTable(cryptos, Len(SEED_CRYPTOS))
    /\ priceHistory' = SeedHistory(priceHistory, Len(SEED_CRYPTOS), clock)
    /\ data' = [data EXCEPT ![c] =
                   [i \in 1..Len(SEED_CRYPTOS) |->
                       Coin(SEED_CRYPTOS[i].id, SeedPrice(SEED_CRYPTOS[i].rank), 0)]]
    /\ pc' = [pc EXCEPT ![c] = "alerts"]
    /\ UNCHANGED <<kind, idx, active, clock, isInitialized,
                   alertVars, socketVars, pubVars, histVars>>

\* await seedFallbackData(); return null
Seed(c) ==
    /\ pc[c] = "seed"
    /\ cryptos' = SeedTable(cryptos, Len(SEED_CRYPTOS))
    /\ priceHistory' = SeedHistory(priceHistory, Len(SEED_CRYPTOS), clock)
    /\ pc' = [pc EXCEPT ![c] = "done"]
    /\ UNCHANGED <<data, kind, idx, active, clock, isInitialized,
                   alertVars, socketVars, pubVars, histVars>>

\* checkPriceAlerts: const activeAlerts = await storage.getActivePriceAlerts()
ReadAlerts(c) ==
    /\ pc[c] = "alerts"
    /\ active' = [active EXCEPT ![c] = GetActivePriceAlerts]
    /\ IF GetActivePriceAlerts = <<>>
       THEN /\ pc' = [pc EXCEPT ![c] = "broadcast"]
            /\ UNCHANGED idx
       ELSE /\ pc' = [pc EXCEPT ![c] = "check"]
            /\ idx' = [idx EXCEPT ![c] = 1]
    /\ UNCHANGED <<data, kind, clock, isInitialized, storeVars, alertVars,
                   socketVars, pubVars, histVars>>

\* The rule the cycle is looking at, the coin found for it, and the verdict.
CurrentRule(c) == active[c][idx[c]]
Triggers(c) ==
    LET rule == alerts[CurrentRule(c)]
        i    == Find(data[c], rule.cryptoId)
    IN  i # 0 /\ ShouldTrigger(rule.alertType, data[c][i], rule.targetValue)

\* one iteration of for (const alert of activeAlerts)
CheckAlert(c) ==
    /\ pc[c] = "check"
    /\ IF Triggers(c)
       THEN /\ alerts' = UpdatePriceAlert(alerts, CurrentRule(c), clock)
            /\ trigWrites' = [trigWrites EXCEPT ![CurrentRule(c)] = @ + 1]
       ELSE UNCHANGED <<alerts, trigWrites>>
    /\ IF idx[c] < Len(active[c])
       THEN /\ idx' = [idx EXCEPT ![c] = @ + 1]
            /\ UNCHANGED pc
       ELSE /\ idx' = [idx EXCEPT ![c] = 0]
            /\ pc' = [pc EXCEPT ![c] = "broadcast"]
    /\ UNCHANGED <<data, kind, active, clock, isInitialized, storeVars,
                   socketVars, pubVars, histVars>>

\* mutant: the flag is not set after the broadcast
BroadcastWithoutFlag(c) ==
    /\ pc[c] = "broadcast"
    /\ payload' = Slice(data[c], 0, TopCount)
    /\ \E failing \in SUBSET Recipients :
         /\ sent' = [s \in Sockets |-> IF s \in SendCalls(failing) THEN 1 ELSE 0]
         /\ sendFailed' = failing
    /\ pc' = [pc EXCEPT ![c] = "done"]
    /\ UNCHANGED <<data, kind, idx, active, clock, isInitialized, storeVars,
                   alertVars, socketVars, histVars>>

\* broadcast({type: 'price_update', data: data.slice(0, 20)});
\* if (!isInitialized) isInitialized = true.
\* Any of the sends may fail in transit (`failing`).
Broadcast(c) ==
    /\ pc[c] = "broadcast"
    /\ payload' = Slice(data[c], 0, TopCount)
    /\ \E failing \in SUBSET Recipients :
         /\ sent' = [s \in Sockets |-> IF s \in SendCalls(failing) THEN 1 ELSE 0]
         /\ sendFailed' = failing
    /\ isInitialized' = TRUE
    /\ pc' = [pc EXCEPT ![c] = "done"]
    /\ UNCHANGED <<data, kind, idx, active, clock, storeVars, alertVars,
                   socketVars, histVars>>

-----------------------------------------------------------------------------
(* The WebSocket server: connection, close and error events *)

\* wss.on('connection'): clients.add(ws)
Connect(s) ==
    /\ readyState[s] = "none"
    /\ readyState' = [readyState EXCEPT ![s] = "open"]
    /\ clients' = clients \cup {s}
    /\ UNCHANGED <<cycleVars, storeVars, alertVars, pubVars, histVars>>

\* the closing handshake starts: readyState is CLOSING, no event yet
BeginClose(s) ==
    /\ readyState[s] = "open"
    /\ readyState' = [readyState EXCEPT ![s] = "closing"]
    /\ UNCHANGED <<clients, cycleVars, storeVars, alertVars, pubVars, histVars>>

\* ws.on('close'): clients.delete(ws)
CloseEvent(s) ==
    /\ readyState[s] = "closing"
    /\ readyState' = [readyState EXCEPT ![s] = "closed"]
    /\ clients' = clients \ {s}
    /\ UNCHANGED <<cycleVars, storeVars, alertVars, pubVars, histVars>>

\* ws.on('error'): clients.delete(ws); the socket is closing and 'close' follows
ErrorEvent(s) ==
    /\ readyState[s] = "open"
    /\ readyState' = [readyState EXCEPT ![s] = "closing"]
    /\ clients' = clients \ {s}
    /\ UNCHANGED <<cycleVars, storeVars, alertVars, pubVars, histVars>>

\* One step of some ingestion cycle.
CycleStep ==
    \E c \in Cycles :
         \/ Tick(c)
         \/ FetchFails(c)
         \/ FetchAnswers(c)
         \/ FetchAnswersNoList(c)
         \/ Upsert(c)
         \/ AddHist(c)
         \/ SeedCheck(c)
         \/ Seed(c)
         \/ ReadAlerts(c)
         \/ CheckAlert(c)
         \/ Broadcast(c)

\* One event of some socket.
SocketStep ==
    \E s \in Sockets :
         \/ Connect(s)
         \/ BeginClose(s)
         \/ CloseEvent(s)
         \/ ErrorEvent(s)

\* Ingestion and alert evaluation while no WebSocket client connects: the
\* cycles, the store and the alert rules created by users.
Next == CycleStep

Spec == Init /\ [][Next]_vars

\* The steps of a cycle that follow an await on the store or run synchronously:
\* once the awaited store operation settles the event loop resumes the cycle.
CycleRuns(c) ==
    \/ Upsert(c)
    \/ AddHist(c)
    \/ SeedCheck(c)
    \/ Seed(c)
    \/ ReadAlerts(c)
    \/ CheckAlert(c)
    \/ Broadcast(c)

\* Spec with the scheduling the program guarantees: the timer fires and a cycle
\* that can run does run. When `await fetch(...)` / `await response.json()`
\* settles is up to upstream: the code sets no timeout and no abort signal on
\* the request, so nothing forces FetchFails or FetchAnswers to happen.
SpecLive ==
    /\ Init
    /\ [][Next]_vars
    /\ \A c \in Cycles : WF_vars(Tick(c)) /\ WF_vars(CycleRuns(c))

\* Ingestion with WebSocket clients connecting, closing and failing at any
\* moment; the store starts as in Init and holds one alert rule.
InitPub ==
    /\ StoreAtBoot
    /\ alerts = << Rule("bitcoin", "price_above", 2) >>
    /\ trigWrites = [i \in DOMAIN alerts |-> 0]
    /\ CyclesInit
    /\ HistAtRest

NextPub == CycleStep \/ SocketStep

SpecPub == InitPub /\ [][NextPub]_vars

\* The first call of initializeAndUpdate alone, with upstream answering a ranked
\* list of about TopCount coins: the path from the fetch to the broadcast.
InitTop ==
    /\ StoreAtBoot
    /\ alerts = << Rule("bitcoin", "price_above", 2) >>
    /\ trigWrites = [i \in DOMAIN alerts |-> 0]
    /\ CyclesInit
    /\ HistAtRest

NextTop ==
    \/ FetchAnswersRanked(1)
    \/ Upsert(1)
    \/ AddHist(1)
    \/ ReadAlerts(1)
    \/ CheckAlert(1)
    \/ Broadcast(1)

SpecTop == InitTop /\ [][NextTop]_vars

\* Rule lists with rules that cannot be evaluated: a rule on an asset upstream
\* never lists, a rule whose targetValue does not parse (parseFloat gives NaN),
\* a rule of a kind the switch does not know, next to a well-formed rule.
RuleConfigs ==
    { << Rule("tether", "price_above", 1), Rule("bitcoin", "price_above", NaN),
         Rule("bitcoin", "volume_above", 1), Rule("bitcoin", "price_below", 2) >>,
      << Rule("bitcoin", "price_below", 2), Rule("bitcoin", "volume_above", 1),
         Rule("bitcoin", "percentage_change", NaN), Rule("tether", "price_below", 9) >>,
      << Rule("ethereum", "price_above", NaN), Rule("ethereum", "price_above", 2) >> }

\* The first call of initializeAndUpdate alone, on a store holding such rules.
InitRules ==
    /\ StoreAtBoot
    /\ alerts \in RuleConfigs
    /\ trigWrites = [i \in DOMAIN alerts |-> 0]
    /\ CyclesInit
    /\ HistAtRest

NextRules ==
    \/ FetchAnswers(1)
    \/ Upsert(1)
    \/ AddHist(1)
    \/ SeedCheck(1)
    \/ ReadAlerts(1)
    \/ CheckAlert(1)
    \/ Broadcast(1)

SpecRules == InitRules /\ [][NextRules]_vars

-----------------------------------------------------------------------------
(* Properties of the history request (checked under SpecHist) *)

\* The series the store holds for the request, and its coverage in time units
\* (0 when it has fewer than 2 points), stated from the store alone.
StoreSeries == GetPriceHistory(hId, hours)
StoreCoverage ==
    IF Len(StoreSeries) < 2 THEN 0
    ELSE StoreSeries[Len(StoreSeries)].timestamp - StoreSeries[1].timestamp

Answered == hpc = "done" /\ response = "series"

\* C1: whatever the asset, the hours and the path taken (store series as is,
\* upstream backfill, synthetic fallback), the series answered by the history
\* request has at most 2000 points.
C1_AtMostCapPoints == Answered => Len(history) <= 2000

\* C1 witness: a series longer than the cap was answered after downsampling.
C1_Witness == Answered /\ hRawLen > 2000 /\ Len(history) > 0

\* C2: upstream is not called when the store's coverage is at least 0.9 x hours
\* and is called exactly once when the coverage is below 0.9 x hours.
C2_UpstreamCallCount ==
    (hpc \in {"downsample", "mock"} \/ (hpc = "done" /\ hPath # "none")) =>
        Len(upstreamCalls) =
            IF 10 * StoreCoverage >= 9 * hours * UnitsPerHour THEN 0 ELSE 1

\* C2 witness: a request whose store coverage is exactly 90 % of a positive
\* duration was answered without any upstream call.
C2_Witness ==
    /\ Answered
    /\ hours > 0
    /\ 10 * StoreCoverage = 9 * hours * UnitsPerHour
    /\ upstreamCalls = <<>>

C10_TimestampsNonDecreasing ==
    Answered =>
        \A i \in 1..(Len(history) - 1) :
            history[i].timestamp <= history[i + 1].timestamp

\* C10 witness: an upstream series was filtered, downsampled and answered.
C10_Witness ==
    /\ Answered
    /\ hPath = "upstream"
    /\ hRawLen > 2000
    /\ Len(history) > 1

\* Every point of the series the handler holds is inside the requested window.
InsideWindow ==
    \A i \in 1..Len(history) : history[i].timestamp >= CutoffTime(hours)

\* C11 (as claimed): every point of the answered series has a timestamp
\* >= now - hours, for every requested hours value, the chart's 'all' range
\* (43800) included.
C11_EveryPointInsideWindow == Answered => InsideWindow

\* C11 (amended): every point of the answered series has a timestamp
\* >= now - hours, except when the 'all' range (43800) was backfilled from
\* upstream: that series is answered as upstream delivered it.
C11_EveryPointInsideWindowButAllRange ==
    (Answered /\ ~(hours = 43800 /\ hPath = "upstream")) => InsideWindow

\* C11 witness: a 1 h request was backfilled from upstream with three prices 32
\* minutes apart and the oldest one was filtered out.
C11_Witness ==
    /\ Answered
    /\ hPath = "upstream"
    /\ hours = 1
    /\ Len(history) = 2
    /\ InsideWindow

\* C12 (as claimed): when the backfill is attempted and upstream answers
\* successfully with a payload that has no price list, the request is handled
\* like an upstream failure and answers the synthetic fallback series.
C12_NoPriceListGivesSynthetic ==
    (hpc = "done" /\ hUpstream = "noprices" /\ ~hStoreFault) =>
        /\ response = "series"
        /\ hPath = "mock"
        /\ Len(history) = IF hours <= 24 THEN 48 ELSE IF hours <= 168 THEN 168 ELSE 365

\* C19 (as claimed): a request with hours equal to 0 or negative is handled as a
\* request for a fixed positive minimum duration, never with the zero or negative
\* value itself: the duration the handler works with is at least 1 and, as for
\* any positive duration, a store without rows for the asset leads to a backfill
\* attempt.
C19_NonPositiveHoursRaisedToMinimum ==
    (hpc = "done" /\ ~hStoreFault) =>
        /\ hours >= 1
        /\ priceHistory[hId] = <<>> => Len(upstreamCalls) = 1

\* C23: the synthetic series is anchored at the price of the asset's snapshot in
\* the store when the store has one, and otherwise (no snapshot, a snapshot
\* without price, an id the store has never seen) at a fixed default: 50000 for
\* bitcoin, 100 for an id without an entry in the table of defaults.
C23_AnchorIsStoredPriceOrDefault ==
    (hPath = "mock") =>
        /\ hAnchor =
              IF hId \in DOMAIN cryptos /\ cryptos[hId].current_price # NaN
              THEN cryptos[hId].current_price
              ELSE IF hId = "bitcoin" THEN 50000 ELSE 100
        /\ \A i \in 1..Len(history) :
              history[i].src = "mock" /\ history[i].price = hAnchor

\* C23 witness: the fallback for an asset whose snapshot says 7 was answered
\* with a series anchored at 7.
C23_Witness ==
    /\ Answered
    /\ hPath = "mock"
    /\ hId \in DOMAIN cryptos
    /\ hAnchor = 7
    /\ Len(history) > 0

\* C26: the range asked of upstream for a backfill of `hours` is 1 day up to 24,
\* ceil(hours / 24) days up to 168, 30 days up to 720, 90 days up to 2160,
\* 365 days with daily interval up to 8760, and the maximum range with daily
\* interval beyond.
C26_UpstreamRangeByTier ==
    upstreamCalls # <<>> =>
        LET e == upstreamCalls[1]
            h == hours
        IN  /\ Len(upstreamCalls) = 1
            /\ e.id = hId
            /\ h <= 24 => (e.days = "1" /\ ~e.daily)
            /\ (24 < h /\ h <= 168) =>
                  /\ ~e.daily
                  /\ \E d \in 2..7 :
                        e.days = ToString(d) /\ 24 * (d - 1) < h /\ h <= 24 * d
            /\ (168 < h /\ h <= 720) => (e.days = "30" /\ ~e.daily)
            /\ (720 < h /\ h <= 2160) => (e.days = "90" /\ ~e.daily)
            /\ (2160 < h /\ h <= 8760) => (e.days = "365" /\ e.daily)
            /\ h > 8760 => (e.days = "max" /\ e.daily)

\* C26 witness: a backfill of 8760 hours asked for 365 days with daily interval.
C26_Witness ==
    /\ hours = 8760
    /\ upstreamCalls = << [id |-> hId, days |-> "365", daily |-> TRUE] >>

\* C29: for every hours from 1 to 8760 the range asked of upstream covers the
\* requested duration: days x 24 >= hours, so the cutoff now - hours is not
\* older than the start of the range asked for.
C29_UpstreamRangeCoversHours ==
    (upstreamCalls # <<>> /\ hours >= 1 /\ hours <= 8760) =>
        \E d \in 1..365 :
            /\ upstreamCalls[1].days = ToString(d)
            /\ d * 24 >= hours
            /\ CutoffTime(hours) >= Now - d * 24 * UnitsPerHour

\* C29 witness: a backfill of 25 hours, one hour more than a whole day, asked
\* for 2 days.
C29_Witness ==
    /\ hours = 25
    /\ upstreamCalls # <<>>
    /\ upstreamCalls[1].days = "2"

\* The provenances found in the series the handler holds.
Sources == {history[i].src : i \in 1..Len(history)}

\* C27: the answered series comes from one source: only upstream points when
\* the backfill delivered a price list, only synthetic points when the request
\* fell back to synthetic data; store points are never mixed with others.
C27_SingleSource ==
    Answered =>
        /\ Cardinality(Sources) <= 1
        /\ hUpstream = "prices" => Sources \subseteq {"upstream"}
        /\ hUpstream = "failed" => Sources = {"mock"}
        /\ hUpstream \in {"notcalled", "noprices"} => Sources \subseteq {"store"}

\* C27 witness: the store held a row inside the window, the backfill delivered
\* prices, and the answer holds upstream points only.
C27_Witness ==
    /\ Answered
    /\ Len(StoreSeries) > 0
    /\ hUpstream = "prices"
    /\ Sources = {"upstream"}

\* C22: the answer to a series of more than 2000 points is exactly its points
\* at the 0-based indices 0, s, 2s, ... with s = ceil(length / 2000), in their
\* order, the first point included; a series of at most 2000 points is
\* answered unchanged. The answer is a function of the series alone.
C22_StrideSelection ==
    [][ (hpc = "downsample" /\ hpc' = "done" /\ response' = "series") =>
           LET n == Len(history)
               s == (n + 1999) \div 2000
           IN  IF n > 2000
               THEN /\ Len(history') = (n - 1) \div s + 1
                    /\ \A j \in 1..Len(history') : history'[j] = history[(j - 1) * s + 1]
                    /\ history'[1] = history[1]
               ELSE history' = history
      ]_vars

\* C22 witness: a series of 4001 points, 1 or 5 minutes apart, was answered
\* with stride 3, as the 1334 points at indices 0, 3, ..., 3999.
C22_Witness ==
    /\ Answered
    /\ hRawLen = 4001
    /\ Len(history) = 1334
    /\ history[2].timestamp - history[1].timestamp \in {3, 15}

\* C30: whenever the downsampling applies (more than 2000 points), the answer
\* still has more than 1000 points.
C30_MoreThanHalfTheCapKept ==
    (Answered /\ hRawLen > 2000) => Len(history) > 1000

\* C30 witness: a series of 2001 points was answered as 1001 points.
C30_Witness == Answered /\ hRawLen = 2001 /\ Len(history) = 1001

-----------------------------------------------------------------------------
(* Properties of ingestion and alert evaluation (checked under Spec) *)

\* Cycle c takes the step from the current state to the next one.
Acts(c) == pc'[c] # pc[c] \/ idx'[c] # idx[c]

\* Cycles that have started and not finished.
InProgress == {c \in Cycles : pc[c] \notin {"idle", "done"}}

\* C5 (as claimed): a cycle whose upstream fetch fails, returns an empty batch or
\* returns malformed data deletes nothing and leaves every row already in the
\* store as it was; the row counts do not decrease.
C5_FailingCycleLeavesRowsUntouched ==
    [][ \A c \in Cycles :
          (Acts(c) /\ kind'[c] \in {"fail", "empty", "malformed"}) =>
              /\ \A a \in DOMAIN cryptos :
                    a \in DOMAIN cryptos' /\ cryptos'[a] = cryptos[a]
              /\ \A a \in AssetIds :
                    /\ Len(priceHistory'[a]) >= Len(priceHistory[a])
                    /\ SubSeq(priceHistory'[a], 1, Len(priceHistory[a])) = priceHistory[a]
      ]_vars

\* C6: an evaluation of an active rule marks it triggered exactly when the batch
\* holds a snapshot of the rule's asset and the rule's condition holds, equality
\* included: price >= target (price_above), price <= target (price_below),
\* |24 h change| >= target (percentage_change).
C6_TriggeredExactlyWhenConditionHolds ==
    [][ \A c \in Cycles :
          (pc[c] = "check" /\ Acts(c)) =>
             LET r    == active[c][idx[c]]
                 rule == alerts[r]
                 cond ==
                   \E i \in 1..Len(data[c]) :
                      /\ data[c][i].id = rule.cryptoId
                      /\ \/ /\ rule.alertType = "price_above"
                            /\ data[c][i].current_price >= rule.targetValue
                         \/ /\ rule.alertType = "price_below"
                            /\ data[c][i].current_price <= rule.targetValue
                         \/ /\ rule.alertType = "percentage_change"
                            /\ \/ data[c][i].change24h >= rule.targetValue
                               \/ 0 - data[c][i].change24h >= rule.targetValue
                 marked ==
                   /\ trigWrites'[r] = trigWrites[r] + 1
                   /\ alerts'[r].isTriggered
                   /\ alerts'[r].triggeredAt = clock
             IN  /\ marked <=> cond
                 /\ ~cond => (alerts' = alerts /\ trigWrites' = trigWrites)
      ]_vars

\* C6 witness: a price_above rule was marked triggered by a batch whose price
\* equals the rule's target.
C6_Witness ==
    \E r \in DOMAIN alerts, c \in Cycles :
        /\ alerts[r].isTriggered
        /\ alerts[r].alertType = "price_above"
        /\ pc[c] \in {"check", "broadcast", "done"}
        /\ r \in {active[c][j] : j \in 1..Len(active[c])}
        /\ \E i \in 1..Len(data[c]) :
              /\ data[c][i].id = alerts[r].cryptoId
              /\ data[c][i].current_price = alerts[r].targetValue

\* C7 (as claimed): over any sequence of cycles, overlapping ones included, a
\* rule is marked triggered at most once: its triggeredAt is never written a
\* second time.
C7_TriggeredAtMostOnce == \A r \in DOMAIN alerts : trigWrites[r] <= 1

\* C9 (as claimed): at most one ingestion cycle is in progress at any time.
C9_AtMostOneCycleInProgress == Cardinality(InProgress) <= 1

-----------------------------------------------------------------------------
(* Properties of the broadcast (checked under SpecPub) *)

\* Cycle c runs its broadcast in the step from the current state to the next.
Publishes(c) == pc[c] = "broadcast" /\ pc'[c] = "done"

\* C8: a cycle that fetched a non-empty batch and applied it sends exactly one
\* price_update to every subscriber that is in the set and open when it
\* publishes, and publishes once; a cycle whose fetch failed or returned an
\* empty batch sends nothing.
C8_OneMessagePerAppliedCycle ==
    [][ /\ \A c \in Cycles :
            /\ Publishes(c) =>
                  /\ kind[c] = "ok"
                  /\ \A s \in Sockets :
                        sent'[s] = IF s \in clients /\ readyState[s] = "open"
                                   THEN 1 ELSE 0
            /\ (pc[c] # "done" /\ pc'[c] = "done" /\ kind'[c] = "ok") => Publishes(c)
            /\ pc[c] = "done" => pc'[c] = "done"
        /\ sent' # sent => \E c \in Cycles : Publishes(c)
      ]_vars

\* C8 witness: a cycle has published while one subscriber was open and another
\* was still in the set but closing; only the open one got the message.
C8_Witness ==
    \E c \in Cycles, s, t \in Sockets :
        /\ pc[c] = "done" /\ kind[c] = "ok"
        /\ readyState[s] = "open" /\ sent[s] = 1
        /\ t \in clients /\ readyState[t] = "closing" /\ sent[t] = 0

\* C20: the payload of a price_update holds at most 20 snapshots, and they are
\* the 20 best-ranked ones of the cycle's batch, the whole batch when it has
\* fewer than 20.
C20_PayloadIsTopTwenty ==
    [][ \A c \in Cycles :
          Publishes(c) =>
             LET batch == data[c]
                 sentIdx == {j \in 1..Len(batch) :
                               \E i \in 1..Len(payload') : payload'[i] = batch[j]}
             IN  /\ Len(payload') <= 20
                 /\ Len(payload') = IF Len(batch) < 20 THEN Len(batch) ELSE 20
                 /\ Cardinality(sentIdx) = Len(payload')
                 /\ \A j \in (1..Len(batch)) \ sentIdx : \A i \in sentIdx :
                        batch[i].market_cap_rank <= batch[j].market_cap_rank
      ]_vars

\* C20 witness: a batch of 21 ranked coins was published as 20 snapshots.
C20_Witness ==
    /\ pc[1] = "done" /\ kind[1] = "ok"
    /\ Len(data[1]) = 21
    /\ Len(payload) = 20
    /\ payload[20].market_cap_rank = 20

C14_DeadSubscribersRemovedByPublish ==
    [][ \A c \in Cycles :
          Publishes(c) =>
             \A s \in clients :
                (readyState[s] # "open" \/ s \in sendFailed') => s \notin clients'
      ]_vars

\* C15: whatever the interleaving of connections, close and error events with
\* the cycles, a publish runs to its end (the statement after it is reached)
\* and hands the message only to sockets that are in the set and open at that
\* moment, never to one a close or error event has removed.
C15_PublishOnlyToCurrentOpenSubscribers ==
    [][ \A c \in Cycles :
          (pc[c] = "broadcast" /\ Acts(c)) =>
             /\ pc'[c] = "done" /\ isInitialized'
             /\ \A s \in Sockets :
                   /\ sent'[s] = 1 => (s \in clients /\ readyState[s] = "open")
                   /\ s \notin clients => sent'[s] = 0
      ]_vars

\* C15 witness: a cycle has published; one subscriber is open and was served,
\* another, removed by its error event and not closed yet, got nothing.
C15_Witness ==
    \E c \in Cycles, s, t \in Sockets :
        /\ pc[c] = "done" /\ kind[c] = "ok"
        /\ s \in clients /\ readyState[s] = "open" /\ sent[s] = 1
        /\ t \notin clients /\ readyState[t] = "closing" /\ sent[t] = 0

-----------------------------------------------------------------------------
(* Properties of the scheduler (checked under Spec) *)

\* C16: isInitialized becomes true once, in the step that ends the first cycle
\* to have applied a non-empty batch; a failing, empty or malformed cycle never
\* changes it, and once true it stays true.
C16_InitializedOnceAtFirstAppliedCycle ==
    [][ /\ isInitialized => isInitialized'
        /\ (~isInitialized /\ isInitialized') =>
               \E c \in Cycles :
                  Publishes(c) /\ kind[c] = "ok" /\ Len(data[c]) > 0
        /\ \A c \in Cycles :
              /\ (pc[c] # "done" /\ pc'[c] = "done" /\ kind'[c] = "ok") => isInitialized'
              /\ (Acts(c) /\ kind'[c] \in {"fail", "empty", "malformed"}) =>
                     isInitialized' = isInitialized
      ]_vars

\* C16 witness: the first cycle failed and ended with the flag still false
\* (no applied cycle has ended yet), and the flag is true after the second.
C16_Witness ==
    /\ isInitialized
    /\ pc[1] = "done" /\ kind[1] = "fail"
    /\ pc[2] = "done" /\ kind[2] = "ok"

\* C17 (as claimed): a cycle that cannot apply upstream data on an empty store
\* seeds the baseline snapshots, so the store holds at least one snapshot after
\* every completed cycle.
C17_StoreNotEmptyAfterCycle ==
    \A c \in Cycles : pc[c] = "done" => DOMAIN cryptos # {}

\* C18 (as claimed): every cycle that starts eventually finishes, also when the
\* upstream call never answers, because the call is bounded by a timeout that
\* is handled like an upstream failure.
C18_EveryCycleFinishes ==
    \A c \in Cycles : (pc[c] = "fetching") ~> (pc[c] = "done")

\* C21: in a cycle that fetched a well-formed non-empty batch the coins are
\* taken one by one in batch order, each getting one upsert and then one price
\* point appended at its current price; the alert evaluation starts only after
\* the last of these writes, looks at the whole batch, and the publish comes
\* only after the last active rule has been evaluated.
C21_WritesThenAlertsThenPublish ==
    [][ \A c \in Cycles :
          (Acts(c) /\ kind[c] = "ok") =>
             LET coin == data[c][idx[c]]
             IN  /\ data'[c] = data[c]
                 /\ pc[c] = "upsert" =>
                       /\ idx[c] \in 1..Len(data[c])
                       /\ coin.id \in DOMAIN cryptos'
                       /\ cryptos'[coin.id].current_price = coin.current_price
                       /\ \A a \in DOMAIN cryptos : a # coin.id => cryptos'[a] = cryptos[a]
                       /\ priceHistory' = priceHistory
                       /\ pc'[c] = "addhist" /\ idx'[c] = idx[c]
                 /\ pc[c] = "addhist" =>
                       /\ cryptos' = cryptos
                       /\ Len(priceHistory'[coin.id]) = Len(priceHistory[coin.id]) + 1
                       /\ priceHistory'[coin.id][Len(priceHistory'[coin.id])].price
                             = coin.current_price
                       /\ \A a \in AssetIds :
                             a # coin.id => priceHistory'[a] = priceHistory[a]
                       /\ IF idx[c] < Len(data[c])
                          THEN pc'[c] = "upsert" /\ idx'[c] = idx[c] + 1
                          ELSE pc'[c] = "alerts"
                 /\ pc[c] \in {"alerts", "check", "broadcast"} => storeVars' = storeVars
                 /\ pc'[c] = "alerts" => (pc[c] = "addhist" /\ idx[c] = Len(data[c]))
                 /\ (pc'[c] = "broadcast" /\ pc[c] # "broadcast") =>
                       \/ pc[c] = "alerts" /\ active'[c] = <<>>
                       \/ pc[c] = "check" /\ idx[c] = Len(active[c])
                 /\ pc[c] = "broadcast" => pc'[c] = "done"
      ]_vars

\* C21 witness: a cycle went through a batch of two coins and a non-empty list
\* of active rules and has published.
C21_Witness ==
    \E c \in Cycles :
        /\ pc[c] = "done" /\ kind[c] = "ok"
        /\ Len(data[c]) = 2
        /\ Len(active[c]) > 0
        /\ \A i \in 1..2 :
              \E k \in 1..Len(priceHistory[data[c][i].id]) :
                 priceHistory[data[c][i].id][k].price = data[c][i].current_price

\* The ids of the seeding roster.
RosterIds == {SEED_CRYPTOS[i].id : i \in 1..Len(SEED_CRYPTOS)}

\* C24 (as claimed): seeding runs only in a cycle whose upstream fetch failed
\* and only on a store without any snapshot; it writes one snapshot and one
\* price point for each of the 10 roster assets and nothing else; a store that
\* already holds snapshots is never seeded.
C24_SeedingOnlyOnEmptyStoreAfterFailure ==
    [][ \A c \in Cycles :
          (pc[c] = "seed" /\ pc'[c] # "seed") =>
             /\ kind[c] = "fail"
             /\ DOMAIN cryptos = {}
             /\ DOMAIN cryptos' = RosterIds
             /\ Cardinality(RosterIds) = 10
             /\ \A a \in AssetIds :
                   Len(priceHistory'[a]) =
                      Len(priceHistory[a]) + IF a \in RosterIds THEN 1 ELSE 0
      ]_vars

\* C28: no step of a cycle whose fetch failed or returned an empty batch marks
\* a rule triggered, the seeding of the baseline prices included.
C28_NoTriggerInFailedOrEmptyCycle ==
    [][ \A c \in Cycles :
          (Acts(c) /\ kind'[c] \in {"fail", "empty"}) =>
             /\ alerts' = alerts
             /\ trigWrites' = trigWrites
             /\ pc'[c] \in {"seedcheck", "seed", "done"}
      ]_vars

\* C28 witness: a failed cycle has seeded bitcoin at 50000 and ended, and the
\* rule 'bitcoin at or above 2' is still not triggered.
C28_Witness ==
    \E c \in Cycles, r \in DOMAIN alerts :
        /\ pc[c] = "done" /\ kind[c] = "fail"
        /\ DOMAIN cryptos = RosterIds
        /\ cryptos["bitcoin"].current_price = 50000
        /\ alerts[r] = Rule("bitcoin", "price_above", 2)

-----------------------------------------------------------------------------
(* Properties of the alert evaluation on rules that cannot be evaluated
   (checked under SpecRules) *)

\* C25: the evaluation leaves unchanged, and goes on after, every active rule
\* whose asset has no snapshot in the batch, whose target value does not parse
\* or whose kind is unknown; the loop visits every rule of the list read at its
\* start and then the cycle publishes.
C25_UnevaluableRulesSkipped ==
    [][ \A c \in Cycles :
          (pc[c] = "check" /\ Acts(c)) =>
             LET r         == active[c][idx[c]]
                 rule      == alerts[r]
                 absent    == \A i \in 1..Len(data[c]) : data[c][i].id # rule.cryptoId
                 malformed ==
                    \/ rule.targetValue = NaN
                    \/ rule.alertType \notin {"price_above", "price_below",
                                              "percentage_change"}
             IN  /\ (absent \/ malformed) =>
                        (alerts' = alerts /\ trigWrites' = trigWrites)
                 /\ \A q \in DOMAIN alerts : q # r => alerts'[q] = alerts[q]
                 /\ IF idx[c] < Len(active[c])
                    THEN pc'[c] = "check" /\ idx'[c] = idx[c] + 1
                    ELSE pc'[c] = "broadcast"
      ]_vars

\* C25 witness: the cycle has published; the rules on an unlisted asset, with an
\* unparseable target and of an unknown kind are untouched and the well-formed
\* rule evaluated after them is triggered.
C25_Witness ==
    /\ pc[1] = "done" /\ kind[1] = "ok"
    /\ Len(active[1]) = 4
    /\ alerts[1].cryptoId = "tether"
    /\ alerts[2].targetValue = NaN
    /\ alerts[3].alertType = "volume_above"
    /\ \A r \in 1..3 : ~alerts[r].isTriggered /\ trigWrites[r] = 0
    /\ alerts[4].isTriggered /\ trigWrites[4] = 1

=============================================================================
